---------------------------- MODULE Spec2Model ----------------------------
(***************************************************************************)
(* A model of package tailf (src/tailf.go): a follower of one file, its    *)
(* event loop (followFile), its reader (Read) and Close, together with the *)
(* file system and the fsnotify watcher they talk to. Spec is the follower  *)
(* of src/tailf.go; BufSpec is the follower of the two versions that read  *)
(* through a bufio.Reader (src/unnamed/part_001, src/unnamed/part_002).    *)
(*                                                                         *)
(* Bytes are numbered in the order they are written through the path:     *)
(* the k-th byte ever written is the number k, so the stream of bytes     *)
(* written so far is <<1, ..., nWritten>>. A byte of a hole, which a write *)
(* past the end of a truncated file leaves, is the number 0.               *)
(***************************************************************************)
EXTENDS Integers, Sequences, FiniteSets, TLC

\* Bounds of the model.
MaxBytes == 2
MaxEnvOps == 1

\* The lengths of the buffers the reader passes to Read (len(b) = cap(b)).
BufLens == {1, 2}

VARIABLES
    inodes,         \* file system: inode number -> content (a sequence of bytes)
    pathIno,        \* inode found at f.filename, 0 when no file is there
    nWritten,       \* bytes written so far through the path
    wpos,           \* offset of the writer's handle in the file at the path
    nEnvOps,        \* operations of the environment other than writes so far
    seen,           \* kinds of those operations that have happened
    events,         \* f.watch.Events: events queued by the watcher
    errors,         \* f.watch.Errors: errors queued by the watcher
    watchClosed,    \* f.watch has been closed (both its channels are closed)
    watchRel,       \* times the watcher has been released
    followPc,       \* position of Follow
    offset,         \* f.offset
    maxSize,        \* f.maxSize
    file,           \* f.file: [ino, pos, open, rel], rel the times this handle
                    \* has been released
    fileRel,        \* the most times any one file handle has been released
    mu,             \* f.mu: "free" or the goroutine holding it
    notifycClosed,  \* close(f.notifyc) has run
    errcClosed,     \* close(f.errc) has run
    loopPc,         \* position of followFile
    loopEv,         \* the event followFile is handling
    loopErr,        \* the error followFile is sending on f.errc
    readPc,         \* position of the reader in Read
    readLen,        \* len(b) of the Read in progress
    readable,       \* Read's local variable readable
    closed,         \* Close has been called
    closeRes,       \* what the last call of Close returned
    version,        \* the version of the follower: "tailf.go", or "part_001",
                    \* "part_002" (the versions that read through a bufio.Reader)
    fileReader,     \* f.fileReader (f.reader in part_002): [buf, attached], the
                    \* bytes it has buffered and whether it reads from f.file
    closePc,        \* position of a call of Close that waits for f.mu
    readTmp,        \* n, err of a Read of part_002 that has unlocked f.mu
    startByte,      \* bytes in the file when Follow was called with
                    \* fromStart = false; 0 with fromStart = true
    delivered,      \* bytes returned so far by Read, in order
    lastRes,        \* result of the last Read that returned: [n, err]
    nTermErr        \* Reads that returned an error received from f.errc

fsVars == <<inodes, pathIno, nWritten, wpos, nEnvOps, seen>>
watchVars == <<events, errors, watchClosed, watchRel>>
fieldVars == <<followPc, offset, maxSize, file, fileRel, mu, startByte>>
chanVars == <<notifycClosed, errcClosed>>
loopVars == <<loopPc, loopEv, loopErr>>
readVars == <<readPc, readLen, readable, delivered, lastRes, nTermErr>>
closeVars == <<closed, closeRes>>
bufVars == <<version, fileReader, closePc, readTmp>>
vars == <<fsVars, watchVars, fieldVars, chanVars, loopVars, readVars, closeVars,
          bufVars>>

NoRes == [n |-> 0, err |-> "none"]

NoTmp == [n |-> 0, err |-> "none", closedAtUnlock |-> FALSE]

Min(a, b) == IF a < b THEN a ELSE b

IsPrefix(s, t) == Len(s) =< Len(t) /\ SubSeq(t, 1, Len(s)) = s

\* The content of the file at the path (os.Stat(f.filename).Size() is its length).
PathContent == IF pathIno = 0 THEN <<>> ELSE inodes[pathIno]

\* A panic ends the process: nothing runs after it.
Crashed == readPc = "panic" \/ loopPc = "panic"

Live == followPc = "live" /\ ~Crashed

InitState(v) ==
    /\ version = v
    /\ fileReader = [buf |-> <<>>, attached |-> TRUE]
    /\ closePc = "idle"
    /\ readTmp = NoTmp
    /\ inodes = << <<>> >>
    /\ pathIno = 1
    /\ nWritten = 0
    /\ wpos = 0
    /\ nEnvOps = 0
    /\ seen = {}
    /\ events = <<>>
    /\ errors = <<>>
    /\ watchClosed = FALSE
    /\ watchRel = 0
    /\ followPc = "start"
    /\ offset = 0
    /\ maxSize = 0
    /\ file = [ino |-> 0, pos |-> 0, open |-> FALSE, rel |-> 0]
    /\ fileRel = 0
    /\ mu = "free"
    /\ notifycClosed = FALSE
    /\ errcClosed = FALSE
    /\ loopPc = "none"
    /\ loopEv = "none"
    /\ loopErr = "none"
    /\ readPc = "idle"
    /\ readLen = 0
    /\ readable = 0
    /\ closed = FALSE
    /\ closeRes = "none"
    /\ startByte = 0
    /\ delivered = <<>>
    /\ lastRes = NoRes
    /\ nTermErr = 0

\* The follower of src/tailf.go.
Init == InitState("tailf.go")

(***************************************************************************)
(* The environment: the file system under the path and the watcher.        *)
(* The watcher reports what happens at the path it was added for.          *)
(***************************************************************************)

\* The watcher queues an event while it is registered and open.
Emit(kind) ==
    IF followPc = "live" /\ ~watchClosed THEN Append(events, kind) ELSE events

\* Once the watcher and the file handle are closed and no handler is about to
\* run, nothing the follower does looks at the file system any more.
Observed == ~(watchClosed /\ ~file.open /\ followPc = "live" /\ loopPc # "handle")

Zeros(n) == [i \in 1..n |-> 0]

\* The content after a write of byte b at offset pos: a write past the end
\* leaves a hole of zero bytes before it.
WriteAt(content, pos, b) ==
    IF pos >= Len(content)
        THEN content \o Zeros(pos - Len(content)) \o <<b>>
        ELSE [content EXCEPT ![pos + 1] = b]

\* The writer writes the next byte through its handle of the file at the path
\* (file.WriteString), at the offset of the handle.
FsWrite ==
    /\ ~Crashed
    /\ Observed
    /\ pathIno # 0
    /\ nWritten < MaxBytes
    /\ nWritten' = nWritten + 1
    /\ inodes' = [inodes EXCEPT ![pathIno] = WriteAt(@, wpos, nWritten + 1)]
    /\ wpos' = wpos + 1
    /\ events' = Emit("Write")
    /\ UNCHANGED <<pathIno, nEnvOps, seen, errors, watchClosed, watchRel,
                   fieldVars, chanVars, loopVars, readVars, closeVars, bufVars>>

EnvOp(kind) ==
    /\ Live
    /\ Observed
    /\ nEnvOps < MaxEnvOps
    /\ nEnvOps' = nEnvOps + 1
    /\ seen' = seen \cup {kind}
    /\ UNCHANGED <<nWritten, fieldVars, chanVars, loopVars, readVars, closeVars,
                   bufVars>>

\* The file is truncated in place (os.OpenFile(filename, os.O_TRUNC, ...)); the
\* handle of the writer keeps its offset.
FsTruncate ==
    /\ EnvOp("truncate")
    /\ pathIno # 0
    /\ inodes[pathIno] # <<>>
    /\ inodes' = [inodes EXCEPT ![pathIno] = <<>>]
    /\ events' = Emit("Write")
    /\ UNCHANGED <<pathIno, wpos, errors, watchClosed, watchRel>>

\* The file is moved aside: nothing is at the path until a file is created.
FsRename ==
    /\ EnvOp("rename")
    /\ pathIno # 0
    /\ pathIno' = 0
    /\ events' = Emit("Rename")
    /\ UNCHANGED <<inodes, wpos, errors, watchClosed, watchRel>>

\* The file is removed (os.Remove(filename)).
FsRemove ==
    /\ EnvOp("remove")
    /\ pathIno # 0
    /\ pathIno' = 0
    /\ events' = Emit("Remove")
    /\ UNCHANGED <<inodes, wpos, errors, watchClosed, watchRel>>

\* A new, empty file is created at the path (os.Create(filename)). Replacing a
\* file that is there is reported as a Create event; whether creating one where
\* none is is reported depends on what the watcher watches. Creating the file
\* that a rename or a removal left missing completes that operation; the
\* writer goes on through a handle of the new file.
FsCreate ==
    /\ Live
    /\ Observed
    /\ IF pathIno = 0
          THEN UNCHANGED nEnvOps
          ELSE nEnvOps < MaxEnvOps /\ nEnvOps' = nEnvOps + 1
    /\ seen' = seen \cup {"create"}
    /\ inodes' = Append(inodes, <<>>)
    /\ pathIno' = Len(inodes) + 1
    /\ wpos' = 0
    /\ \E report \in BOOLEAN :
          /\ (pathIno # 0 => report)
          /\ events' = IF report THEN Emit("Create") ELSE events
    /\ UNCHANGED <<nWritten, errors, watchClosed, watchRel, fieldVars, chanVars, loopVars,
                   readVars, closeVars, bufVars>>

\* The mode or the attributes of the file change.
FsChmod ==
    /\ EnvOp("chmod")
    /\ pathIno # 0
    /\ events' = Emit("Chmod")
    /\ UNCHANGED <<inodes, pathIno, wpos, errors, watchClosed, watchRel>>

\* The watcher reports on its Errors channel: an error, or a nil error.
WatchError ==
    /\ EnvOp("error")
    /\ ~watchClosed
    /\ \E e \in {"nil", "ErrWatch"} : errors' = Append(errors, e)
    /\ UNCHANGED <<inodes, pathIno, wpos, events, watchClosed, watchRel>>

(***************************************************************************)
(* Follow (src/tailf.go:46-89).                                            *)
(***************************************************************************)

\* Follow without its seek to the end.
StartOffsetNoSeek(fromStart, size) == 0

\* The offset Follow starts at: file.Seek(0, os.SEEK_END) unless fromStart.
StartOffset(fromStart, size) == IF fromStart THEN 0 ELSE size

\* os.OpenFile, and the seek.
FollowOpen ==
    /\ followPc = "start"
    /\ pathIno # 0
    /\ \E fromStart \in BOOLEAN :
          LET n == StartOffset(fromStart, Len(inodes[pathIno])) IN
          /\ file' = [ino |-> pathIno, pos |-> n, open |-> TRUE, rel |-> 0]
          /\ offset' = n
          /\ startByte' = IF fromStart THEN 0 ELSE Len(inodes[pathIno])
    /\ followPc' = "opened"
    /\ UNCHANGED <<fsVars, watchVars, maxSize, fileRel, mu, chanVars, loopVars,
                   readVars, closeVars, bufVars>>

\* os.Stat, fsnotify.NewWatcher, watch.Add, the follower, go f.followFile().
FollowWatch ==
    /\ followPc = "opened"
    /\ maxSize' = Len(PathContent)
    /\ followPc' = "live"
    /\ loopPc' = "select"
    /\ UNCHANGED <<fsVars, watchVars, offset, file, fileRel, mu, startByte,
                   chanVars, loopEv, loopErr, readVars, closeVars, bufVars>>

Max(a, b) == IF a > b THEN a ELSE b

\* A Close that releases the handle whether or not it is still open.
FileCloseUnguarded(h) ==
    [err |-> "nil", file |-> [h EXCEPT !.open = FALSE, !.rel = @ + 1]]

\* h.Close() of an *os.File: [err, file]. The first call releases the handle;
\* a call on a closed file releases nothing and returns an error.
FileClose(h) ==
    IF h.open
        THEN [err |-> "nil", file |-> [h EXCEPT !.open = FALSE, !.rel = @ + 1]]
        ELSE [err |-> "ErrClosed", file |-> h]

\* f.watch.Close(): the times the watcher has been released after the call. A
\* watcher that is closed already is left alone, and the call returns nil.
WatchClose == IF watchClosed THEN watchRel ELSE watchRel + 1

\* The steps of Follow that can fail, and the position Follow ends at then.
FollowSteps == {"open", "seek", "stat", "watcher", "add"}

FollowFailed == followPc \in {"failed_" \o step : step \in FollowSteps}

\* Follow returns an error. os.OpenFile failed: there is no handle. The seek
\* failed: the file is closed before the return. os.Stat, fsnotify.NewWatcher or
\* watch.Add failed: Follow returns at once.
FollowFail ==
    /\ \/ /\ followPc = "start"
          /\ pathIno # 0
          /\ \/ /\ followPc' = "failed_open"
                /\ UNCHANGED <<file, fileRel>>
             \/ /\ followPc' = "failed_seek"
                /\ file' = FileClose([ino |-> pathIno, pos |-> 0, open |-> TRUE,
                                      rel |-> 0]).file
                /\ fileRel' = Max(fileRel, file'.rel)
       \/ /\ followPc = "opened"
          /\ \E step \in {"stat", "watcher", "add"} :
                followPc' = "failed_" \o step
          /\ UNCHANGED <<file, fileRel>>
    /\ UNCHANGED <<fsVars, watchVars, offset, maxSize, mu, startByte, chanVars,
                   loopVars, readVars, closeVars, bufVars>>

(***************************************************************************)
(* The event loop, followFile (src/tailf.go:146-179), and its handlers.    *)
(***************************************************************************)

\* The select on f.watch.Events and f.watch.Errors: a closed channel stops the
\* loop, an event goes to handleFileEvent, an error is sent on, a nil error
\* falls through to the wake.
LoopSelect ==
    /\ loopPc = "select"
    /\ ~Crashed
    /\ \/ /\ watchClosed
          /\ loopPc' = "exit"
          /\ UNCHANGED <<events, errors, loopEv, loopErr>>
       \/ /\ ~watchClosed
          /\ events # <<>>
          /\ loopEv' = Head(events)
          /\ events' = Tail(events)
          /\ loopPc' = "handle"
          /\ UNCHANGED <<errors, loopErr>>
       \/ /\ ~watchClosed
          /\ errors # <<>>
          /\ errors' = Tail(errors)
          /\ IF Head(errors) = "nil"
                THEN /\ loopPc' = "notify"
                     /\ UNCHANGED loopErr
                ELSE /\ loopPc' = "sendErr"
                     /\ loopErr' = Head(errors)
          /\ UNCHANGED <<events, loopEv>>
    /\ UNCHANGED <<fsVars, watchClosed, watchRel, fieldVars, chanVars, readVars,
                   closeVars, bufVars>>

\* A switch that takes a Create event for a rotation and reopens the file.
HandleFileEventReopensOnCreate(ev) ==
    CASE ev = "Create" -> "reopenFile"
      [] ev = "Remove" -> "ErrFileRemoved"
      [] ev = "Rename" -> "reopenFile"
      [] ev = "Write"  -> "updateFile"
      [] OTHER         -> "panic"

\* handleFileEvent's switch on ev.Op: what the event leads to.
HandleFileEvent(ev) ==
    CASE ev = "Create" -> "ErrFileTruncated"
      [] ev = "Remove" -> "ErrFileRemoved"
      [] ev = "Rename" -> "reopenFile"
      [] ev = "Write"  -> "updateFile"
      [] OTHER         -> "panic"

\* reopenFile: [err, maxSize, file, fileRel] after it. os.Stat of the path,
\* then the old file is closed, the path opened and positioned at f.offset.
ReopenFile ==
    IF pathIno = 0
        THEN [err |-> "ErrFileRemoved", maxSize |-> maxSize, file |-> file,
              fileRel |-> fileRel]
        ELSE [err |-> "nil", maxSize |-> Len(PathContent),
              file |-> [ino |-> pathIno, pos |-> offset, open |-> TRUE,
                        rel |-> 0],
              fileRel |-> Max(fileRel, FileClose(file).file.rel)]

\* updateFile: [err, maxSize] after it. os.Stat of the path.
UpdateFile ==
    IF pathIno = 0
        THEN [err |-> "ErrStat", maxSize |-> maxSize]
        ELSE [err |-> "nil", maxSize |-> Len(PathContent)]

\* The loop goes on after a handler: to the send of its error, or to the wake.
LoopAfter(err) ==
    IF err = "nil"
        THEN /\ loopPc' = "notify"
             /\ UNCHANGED loopErr
        ELSE /\ loopPc' = "sendErr"
             /\ loopErr' = err

\* f.mu when reopenFile or updateFile has returned: defer f.mu.Unlock().
HandlerUnlock == "free"

\* err := f.handleFileEvent(ev). reopenFile and updateFile take f.mu, and give
\* it back when they return.
LoopHandle ==
    /\ loopPc = "handle"
    /\ ~Crashed
    /\ LET h == HandleFileEvent(loopEv) IN
       CASE h = "panic" ->
               /\ loopPc' = "panic"
               /\ UNCHANGED <<maxSize, file, fileRel, mu, loopErr>>
         [] h = "reopenFile" ->
               /\ mu = "free"
               /\ maxSize' = ReopenFile.maxSize
               /\ file' = ReopenFile.file
               /\ fileRel' = ReopenFile.fileRel
               /\ mu' = HandlerUnlock
               /\ LoopAfter(ReopenFile.err)
         [] h = "updateFile" ->
               /\ mu = "free"
               /\ maxSize' = UpdateFile.maxSize
               /\ mu' = HandlerUnlock
               /\ LoopAfter(UpdateFile.err)
               /\ UNCHANGED <<file, fileRel>>
         [] OTHER ->
               /\ LoopAfter(h)
               /\ UNCHANGED <<maxSize, file, fileRel, mu>>
    /\ loopEv' = "none"
    /\ UNCHANGED <<fsVars, watchVars, followPc, offset, startByte, chanVars,
                   readVars, closeVars, bufVars>>

\* The wake: select { case f.notifyc <- struct{}{}: default: }. A reader that
\* waits on f.notifyc gets the value and its Read returns (0, nil); with no
\* reader waiting the wake is dropped.
LoopNotify ==
    /\ loopPc = "notify"
    /\ ~Crashed
    /\ loopPc' = "select"
    /\ IF readPc = "wait"
          THEN /\ readPc' = "idle"
               /\ lastRes' = [n |-> 0, err |-> "nil"]
          ELSE UNCHANGED <<readPc, lastRes>>
    /\ UNCHANGED <<fsVars, watchVars, fieldVars, chanVars, loopEv, loopErr,
                   readLen, readable, delivered, nTermErr, closeVars, bufVars>>

\* A followFile that returns without its deferred close(f.notifyc).
LoopExitLeavesNotifycOpen ==
    /\ loopPc = "exit"
    /\ ~Crashed
    /\ loopPc' = "done"
    /\ errcClosed' = TRUE
    /\ watchClosed' = TRUE
    /\ watchRel' = WatchClose
    /\ events' = <<>>
    /\ errors' = <<>>
    /\ UNCHANGED <<fsVars, fieldVars, notifycClosed, loopEv, loopErr, readVars,
                   closeVars, bufVars>>

\* The deferred calls of followFile: close(f.errc), close(f.notifyc),
\* f.watch.Close().
LoopExit ==
    /\ loopPc = "exit"
    /\ ~Crashed
    /\ loopPc' = "done"
    /\ errcClosed' = TRUE
    /\ notifycClosed' = TRUE
    /\ watchClosed' = TRUE
    /\ watchRel' = WatchClose
    /\ events' = <<>>
    /\ errors' = <<>>
    /\ UNCHANGED <<fsVars, fieldVars, loopEv, loopErr, readVars, closeVars, bufVars>>

(***************************************************************************)
(* Read (src/tailf.go:109-144).                                            *)
(***************************************************************************)

\* readable := f.maxSize - f.offset
Readable == maxSize - offset

\* f.mu.Lock() and the measure of what is readable.
ReadLock ==
    /\ Live
    /\ readPc = "idle"
    /\ mu = "free"
    /\ mu' = "reader"
    /\ \E len \in BufLens : readLen' = len
    /\ readable' = Readable
    /\ readPc' = "check"
    /\ UNCHANGED <<fsVars, watchVars, followPc, offset, maxSize, file, fileRel,
                   startByte,
                   chanVars, loopVars, delivered, lastRes, nTermErr,
                   closeVars, bufVars>>

\* A loop that goes on to its wake after the send.
AfterSendErrGoesOn == "notify"

\* Where followFile goes once its f.errc <- err has been received: it returns.
AfterSendErr == "exit"

\* The select on f.errc with a default: an error the loop is sending is
\* received and returned; on a closed channel Read returns io.EOF unless
\* something is readable; otherwise Read goes on.
ReadCheck ==
    /\ readPc = "check"
    /\ ~Crashed
    /\ IF loopPc = "sendErr"
          THEN /\ loopPc' = AfterSendErr
               /\ loopErr' = "none"
               /\ mu' = "free"
               /\ readPc' = "idle"
               /\ lastRes' = [n |-> 0, err |-> loopErr]
               /\ nTermErr' = nTermErr + 1
          ELSE IF errcClosed /\ readable = 0
          THEN /\ mu' = "free"
               /\ readPc' = "idle"
               /\ lastRes' = [n |-> 0, err |-> "EOF"]
               /\ UNCHANGED <<loopPc, loopErr, nTermErr>>
          ELSE /\ readPc' = "body"
               /\ UNCHANGED <<loopPc, loopErr, mu, lastRes, nTermErr>>
    /\ UNCHANGED <<fsVars, watchVars, followPc, offset, maxSize, file, fileRel,
                   startByte,
                   chanVars, loopEv, readLen, readable, delivered,
                   closeVars, bufVars>>

\* A read that starts one byte before the position of the file handle.
FileReadBehind(k) ==
    IF ~file.open \/ file.pos = 0 \/ Len(inodes[file.ino]) < file.pos
        THEN [n |-> 0, err |-> "ErrClosed", bytes |-> <<>>]
        ELSE [n |-> 1, err |-> "nil",
              bytes |-> SubSeq(inodes[file.ino], file.pos, file.pos)]

\* f.file.Read(p) with len(p) = k, at the position of the file handle:
\* [n, err, bytes].
FileRead(k) ==
    IF ~file.open
        THEN [n |-> 0, err |-> "ErrClosed", bytes |-> <<>>]
        ELSE LET content == inodes[file.ino]
                 avail == Len(content) - file.pos
             IN  IF avail =< 0
                     THEN [n |-> 0, err |-> "EOF", bytes |-> <<>>]
                     ELSE [n |-> Min(k, avail), err |-> "nil",
                           bytes |-> SubSeq(content, file.pos + 1,
                                            file.pos + Min(k, avail))]

\* b[:readable] panics unless 0 <= readable <= cap(b).
SliceInRange == 0 =< readable /\ readable =< readLen

\* A Read that returns (0, nil) at once when nothing is readable.
ReadNothingSpins ==
    /\ mu' = "free"
    /\ readPc' = "idle"
    /\ lastRes' = [n |-> 0, err |-> "nil"]
    /\ UNCHANGED <<offset, file, delivered>>

\* A Read that goes to wait for a wake with f.mu still locked.
ReadNothingKeepsLock ==
    /\ mu' = mu
    /\ readPc' = "unlocked"
    /\ UNCHANGED <<offset, file, delivered, lastRes>>

\* readable == 0: f.mu.Unlock(), and Read goes on to wait for the file to grow.
ReadNothing ==
    /\ mu' = "free"
    /\ readPc' = "unlocked"
    /\ UNCHANGED <<offset, file, delivered, lastRes>>

\* With nothing readable Read unlocks, and goes on to wait for a wake;
\* otherwise n, err := f.file.Read(b[:readable]); f.offset += int64(n).
ReadBody ==
    /\ readPc = "body"
    /\ ~Crashed
    /\ IF readable = 0
          THEN ReadNothing
          ELSE IF ~SliceInRange
          THEN /\ readPc' = "panic"
               /\ UNCHANGED <<mu, offset, file, delivered, lastRes>>
          ELSE LET r == FileRead(readable) IN
               /\ offset' = offset + r.n
               /\ file' = [file EXCEPT !.pos = @ + r.n]
               /\ delivered' = delivered \o r.bytes
               /\ lastRes' = [n |-> r.n, err |-> r.err]
               /\ mu' = "free"
               /\ readPc' = "idle"
    /\ UNCHANGED <<fsVars, watchVars, followPc, maxSize, fileRel, startByte,
                   chanVars, loopVars, readLen, readable, nTermErr, closeVars,
                   bufVars>>

\* _, open := <-f.notifyc: from here on the reader waits on the channel. (The
\* value of a wake is received in LoopNotify.)
ReadWait ==
    /\ readPc = "unlocked"
    /\ ~Crashed
    /\ readPc' = "wait"
    /\ UNCHANGED <<fsVars, watchVars, fieldVars, chanVars, loopVars, readLen,
                   readable, delivered, lastRes, nTermErr, closeVars, bufVars>>

\* The receive from f.notifyc finds the channel closed: Read returns io.EOF.
ReadWaitClosed ==
    /\ readPc = "wait"
    /\ ~Crashed
    /\ notifycClosed
    /\ readPc' = "idle"
    /\ lastRes' = [n |-> 0, err |-> "EOF"]
    /\ UNCHANGED <<fsVars, watchVars, fieldVars, chanVars, loopVars, readLen,
                   readable, delivered, nTermErr, closeVars, bufVars>>

(***************************************************************************)
(* Close (src/tailf.go:93-107).                                            *)
(***************************************************************************)

\* Close, under f.mu: f.watch.Close() closes the watcher's channels and returns
\* nil; f.file.Close(); Close returns the error of the two that is not nil.
Close ==
    /\ Live
    /\ mu = "free"
    /\ closed' = TRUE
    /\ watchClosed' = TRUE
    /\ watchRel' = WatchClose
    /\ events' = <<>>
    /\ errors' = <<>>
    /\ file' = FileClose(file).file
    /\ fileRel' = Max(fileRel, FileClose(file).file.rel)
    /\ closeRes' = FileClose(file).err
    /\ UNCHANGED <<fsVars, followPc, offset, maxSize, mu, startByte, chanVars,
                   loopVars, readVars, bufVars>>

(***************************************************************************)
(* The specifications.                                                     *)
(***************************************************************************)

Env ==
    \/ FsWrite
    \/ FsTruncate
    \/ FsRename
    \/ FsRemove
    \/ FsCreate
    \/ FsChmod
    \/ WatchError

Loop ==
    \/ LoopSelect
    \/ LoopHandle
    \/ LoopNotify
    \/ LoopExit

Reader ==
    \/ ReadLock
    \/ ReadCheck
    \/ ReadBody
    \/ ReadWait
    \/ ReadWaitClosed

Next ==
    \/ Env
    \/ FollowOpen
    \/ FollowWatch
    \/ FollowFail
    \/ Loop
    \/ Reader
    \/ Close

Spec == Init /\ [][Next]_vars

\* The goroutine of followFile and the goroutine of the reader are scheduled
\* fairly, and the reader calls Read again whenever a Read has returned. A
\* handler that waits for f.mu gets it in the end, however often the reader
\* takes it (sync.Mutex does not starve a waiter).
FairSpec == Spec /\ WF_vars(Loop) /\ SF_vars(LoopHandle) /\ WF_vars(Reader)

(***************************************************************************)
(* The versions of the follower that read through a bufio.Reader           *)
(* (src/unnamed/part_001, src/unnamed/part_002). followFile and the select *)
(* of Read on f.errc are the same code in the three versions; Follow,      *)
(* the handlers, the rest of Read and Close differ.                        *)
(***************************************************************************)

BufVersions == {"part_001", "part_002"}

InitBuf == \E v \in BufVersions : InitState(v)

\* bufio.NewReader(file), fsnotify.NewWatcher, watch.Add, the follower,
\* go f.followFile(): these versions do not stat the file.
FollowWatchBuf ==
    /\ followPc = "opened"
    /\ followPc' = "live"
    /\ loopPc' = "select"
    /\ UNCHANGED <<fsVars, watchVars, offset, maxSize, file, fileRel, mu,
                   startByte, chanVars, loopEv, loopErr, readVars, closeVars,
                   bufVars>>

\* Follow returns an error: of os.OpenFile, of the seek (the file is closed
\* first), of fsnotify.NewWatcher or of watch.Add.
FollowFailBuf ==
    /\ \/ /\ followPc = "start"
          /\ pathIno # 0
          /\ \/ /\ followPc' = "failed_open"
                /\ UNCHANGED <<file, fileRel>>
             \/ /\ followPc' = "failed_seek"
                /\ file' = FileClose([ino |-> pathIno, pos |-> 0, open |-> TRUE,
                                      rel |-> 0]).file
                /\ fileRel' = Max(fileRel, file'.rel)
       \/ /\ followPc = "opened"
          /\ \E step \in {"watcher", "add"} : followPc' = "failed_" \o step
          /\ UNCHANGED <<file, fileRel>>
    /\ UNCHANGED <<fsVars, watchVars, offset, maxSize, mu, startByte, chanVars,
                   loopVars, readVars, closeVars, bufVars>>

\* f.fileReader.Peek(1): [err, buf, pos], the error, the buffer and the offset
\* of the file after it. With a byte buffered nothing is read; otherwise the
\* buffer is filled with what the file has from its offset on. At the end of
\* the file the error is io.EOF, on a closed file the error of the read.
Peek ==
    IF fileReader.buf # <<>>
        THEN [err |-> "nil", buf |-> fileReader.buf, pos |-> file.pos]
        ELSE IF ~fileReader.attached \/ ~file.open
        THEN [err |-> "ErrClosed", buf |-> <<>>, pos |-> file.pos]
        ELSE LET content == inodes[file.ino] IN
             IF Len(content) =< file.pos
                 THEN [err |-> "EOF", buf |-> <<>>, pos |-> file.pos]
                 ELSE [err |-> "nil",
                       buf |-> SubSeq(content, file.pos + 1, Len(content)),
                       pos |-> Len(content)]

\* err != nil && err != io.EOF && err != bufio.ErrBufferFull
PeekFailed(err) == err \notin {"nil", "EOF"}

\* handleFileEvent of part_001 and part_002: what the event leads to.
HandleFileEventBuf(ev) ==
    CASE ev = "Create" -> "ErrFileTruncated"
      [] ev = "Remove" -> "ErrFileRemoved"
      [] ev = "Rename" -> "reopenFile"
      [] ev = "Write"  -> "updateFile"
      [] ev = "Chmod"  -> "nil"
      [] OTHER         -> "panic"

\* reopenFile: [err, file, fileRel, fileReader] after it. os.Stat of the path;
\* the old file is closed and the path opened. part_001 returns the error of
\* closing a closed file, then copies what f.fileReader still has, which reads
\* the old file, closed by now, to its end: with bytes copied the error of that
\* read is returned and f.fileReader is left on the old file. part_002 drops
\* what was buffered.
ReopenFileBuf ==
    LET opened == [ino |-> pathIno, pos |-> 0, open |-> TRUE, rel |-> 0]
        rel == Max(fileRel, FileClose(file).file.rel)
    IN  IF pathIno = 0
            THEN [err |-> "ErrFileRemoved", file |-> file, fileRel |-> fileRel,
                  fileReader |-> fileReader]
            ELSE IF version = "part_001" /\ ~file.open
            THEN [err |-> "ErrClosed", file |-> file, fileRel |-> fileRel,
                  fileReader |-> fileReader]
            ELSE IF version = "part_001" /\ fileReader.buf # <<>>
            THEN [err |-> "ErrClosed", file |-> opened, fileRel |-> rel,
                  fileReader |-> [buf |-> <<>>, attached |-> FALSE]]
            ELSE [err |-> "nil", file |-> opened, fileRel |-> rel,
                  fileReader |-> [buf |-> <<>>, attached |-> TRUE]]

\* updateFile: [err, buf, pos] after it. f.fileReader.Peek(1) refills the
\* buffer; part_002 does not look at its error.
UpdateFileBuf ==
    [err |-> IF version = "part_001" /\ PeekFailed(Peek.err)
                THEN Peek.err ELSE "nil",
     buf |-> Peek.buf, pos |-> Peek.pos]

\* err := f.handleFileEvent(ev). reopenFile and updateFile take f.mu, and give
\* it back when they return. A Chmod event is dropped.
LoopHandleBuf ==
    /\ loopPc = "handle"
    /\ ~Crashed
    /\ LET h == HandleFileEventBuf(loopEv) IN
       CASE h = "panic" ->
               /\ loopPc' = "panic"
               /\ UNCHANGED <<file, fileRel, fileReader, mu, loopErr>>
         [] h = "reopenFile" ->
               /\ mu = "free"
               /\ file' = ReopenFileBuf.file
               /\ fileRel' = ReopenFileBuf.fileRel
               /\ fileReader' = ReopenFileBuf.fileReader
               /\ mu' = HandlerUnlock
               /\ LoopAfter(ReopenFileBuf.err)
         [] h = "updateFile" ->
               /\ mu = "free"
               /\ fileReader' = [fileReader EXCEPT !.buf = UpdateFileBuf.buf]
               /\ file' = [file EXCEPT !.pos = UpdateFileBuf.pos]
               /\ mu' = HandlerUnlock
               /\ LoopAfter(UpdateFileBuf.err)
               /\ UNCHANGED fileRel
         [] OTHER ->
               /\ LoopAfter(h)
               /\ UNCHANGED <<file, fileRel, fileReader, mu>>
    /\ loopEv' = "none"
    /\ UNCHANGED <<fsVars, watchVars, followPc, offset, maxSize, startByte,
                   chanVars, readVars, closeVars, version, closePc, readTmp>>

\* f.mu.Lock() and the measure of what is readable. part_001 refills the
\* buffer first, and when that fails it returns the error at once: f.mu stays
\* locked. part_002 takes what is buffered.
ReadLockBuf ==
    /\ Live
    /\ readPc = "idle"
    /\ mu = "free"
    /\ mu' = "reader"
    /\ \E len \in BufLens : readLen' = len
    /\ IF version = "part_001" /\ PeekFailed(Peek.err)
          THEN /\ lastRes' = [n |-> 0, err |-> Peek.err]
               /\ UNCHANGED <<readPc, readable, fileReader, file>>
          ELSE IF version = "part_001"
          THEN /\ fileReader' = [fileReader EXCEPT !.buf = Peek.buf]
               /\ file' = [file EXCEPT !.pos = Peek.pos]
               /\ readable' = Len(Peek.buf)
               /\ readPc' = "check"
               /\ UNCHANGED lastRes
          ELSE /\ readable' = Len(fileReader.buf)
               /\ readPc' = "check"
               /\ UNCHANGED <<lastRes, fileReader, file>>
    /\ UNCHANGED <<fsVars, watchVars, followPc, offset, maxSize, fileRel,
                   startByte, chanVars, loopVars, delivered, nTermErr, closeVars,
                   version, closePc, readTmp>>

\* imin(readable, len(b))
Imin(a, b) == IF a < b THEN a ELSE b

\* With nothing readable Read unlocks, and goes on to wait for a wake;
\* otherwise n, err := f.reader.Read(b[:imin(readable, len(b))]) takes the
\* bytes from the buffer and f.mu is unlocked. part_001 returns n, err;
\* part_002 has f.isClosed to look at before it returns.
ReadBodyBuf ==
    /\ readPc = "body"
    /\ ~Crashed
    /\ IF readable = 0
          THEN /\ ReadNothing
               /\ UNCHANGED <<fileReader, readTmp>>
          ELSE LET n == Imin(readable, readLen) IN
               /\ fileReader' = [fileReader EXCEPT
                                   !.buf = SubSeq(@, n + 1, Len(@))]
               /\ delivered' = delivered \o SubSeq(fileReader.buf, 1, n)
               /\ mu' = "free"
               /\ IF version = "part_001"
                     THEN /\ lastRes' = [n |-> n, err |-> "nil"]
                          /\ readPc' = "idle"
                          /\ UNCHANGED readTmp
                     ELSE /\ readTmp' = [n |-> n, err |-> "nil",
                                         closedAtUnlock |-> closed]
                          /\ readPc' = "isClosed"
                          /\ UNCHANGED lastRes
               /\ UNCHANGED <<offset, file>>
    /\ UNCHANGED <<fsVars, watchVars, followPc, maxSize, fileRel, startByte,
                   chanVars, loopVars, readLen, readable, nTermErr, closeVars,
                   version, closePc>>

\* part_002, with f.mu unlocked: if !f.isClosed && err == io.EOF { return n, nil };
\* return n, err. The read of f.isClosed is not ordered with the write of a
\* Close that runs after the unlock: it gives the old value or the new one.
ReadIsClosed ==
    /\ readPc = "isClosed"
    /\ ~Crashed
    /\ \E isClosed \in {readTmp.closedAtUnlock, closed} :
          lastRes' = IF ~isClosed /\ readTmp.err = "EOF"
                        THEN [n |-> readTmp.n, err |-> "nil"]
                        ELSE [n |-> readTmp.n, err |-> readTmp.err]
    /\ readPc' = "idle"
    /\ readTmp' = NoTmp
    /\ UNCHANGED <<fsVars, watchVars, fieldVars, chanVars, loopVars, readLen,
                   readable, delivered, nTermErr, closeVars, version,
                   fileReader, closePc>>

\* Close is called: f.mu.Lock() is where it waits.
CloseCallBuf ==
    /\ Live
    /\ closePc = "idle"
    /\ closePc' = "lock"
    /\ UNCHANGED <<fsVars, watchVars, fieldVars, chanVars, loopVars, readVars,
                   closeVars, version, fileReader, readTmp>>

\* Close with f.mu: f.watch.Close(); part_001 closes the file and returns the
\* error of that, part_002 sets f.isClosed and leaves the file open.
CloseRunBuf ==
    /\ closePc = "lock"
    /\ ~Crashed
    /\ mu = "free"
    /\ closePc' = "idle"
    /\ closed' = TRUE
    /\ watchClosed' = TRUE
    /\ watchRel' = WatchClose
    /\ events' = <<>>
    /\ errors' = <<>>
    /\ IF version = "part_001"
          THEN /\ file' = FileClose(file).file
               /\ fileRel' = Max(fileRel, FileClose(file).file.rel)
               /\ closeRes' = FileClose(file).err
          ELSE /\ closeRes' = "nil"
               /\ UNCHANGED <<file, fileRel>>
    /\ UNCHANGED <<fsVars, followPc, offset, maxSize, mu, startByte, chanVars,
                   loopVars, readVars, version, fileReader, readTmp>>

LoopBuf ==
    \/ LoopSelect
    \/ LoopHandleBuf
    \/ LoopNotify
    \/ LoopExit

ReaderBuf ==
    \/ ReadLockBuf
    \/ ReadCheck
    \/ ReadBodyBuf
    \/ ReadIsClosed
    \/ ReadWait
    \/ ReadWaitClosed

NextBuf ==
    \/ Env
    \/ FollowOpen
    \/ FollowWatchBuf
    \/ FollowFailBuf
    \/ LoopBuf
    \/ ReaderBuf
    \/ CloseCallBuf
    \/ CloseRunBuf

BufSpec == InitBuf /\ [][NextBuf]_vars

\* The goroutines of followFile, of the reader and of the caller of Close are
\* scheduled fairly, the reader calls Read again whenever a Read has returned,
\* and who waits for f.mu gets it in the end if it is unlocked again and again.
FairBufSpec ==
    /\ BufSpec
    /\ WF_vars(LoopBuf) /\ SF_vars(LoopHandleBuf)
    /\ WF_vars(ReaderBuf) /\ SF_vars(ReadLockBuf)
    /\ SF_vars(CloseRunBuf)

(***************************************************************************)
(* The claims.                                                             *)
(***************************************************************************)

\* Something other than appended bytes has happened to the file or the
\* follower: an operation of the environment other than a write, Close, a panic.
Disturbed == closed \/ seen # {} \/ Crashed

InDelivered(k) == \E i \in 1..Len(delivered) : delivered[i] = k

\* C1: for a follower that follows from the start, with a reader that calls
\* Read again and again, every byte appended to the file is eventually returned
\* by a Read (as long as nothing but writes happens to the file and the
\* follower is not closed).
C1_EveryByteDelivered ==
    \A k \in 1..MaxBytes :
        (followPc = "live" /\ startByte = 0 /\ nWritten >= k)
            ~> (InDelivered(k) \/ Disturbed)

FileDisturbed == seen \cap {"truncate", "rename", "remove", "create"} # {}

\* The bytes written so far from the byte the follower starts at.
StreamFromStart == [i \in 1..(nWritten - startByte) |-> startByte + i]

ReadReturns == readPc # "idle" /\ readPc' = "idle"

\* The follower is live: Close has not been called and the event loop has not
\* ended.
FollowerLive == followPc = "live" /\ ~closed /\ loopPc \notin {"exit", "done"}

\* C2: as long as the file is only appended to, the bytes returned so far by
\* Read are a prefix of the bytes of the file from the follower's starting
\* position: none twice, none skipped, none out of order.
C2_DeliveredIsPrefix ==
    ~FileDisturbed => IsPrefix(delivered, StreamFromStart)

C2_Witness ==
    /\ ~FileDisturbed
    /\ delivered = <<1, 2>>
    /\ lastRes = [n |-> 1, err |-> "nil"]

\* C3: while the follower is live no Read returns io.EOF.
C3_NoEOFWhileLive ==
    [][(ReadReturns /\ FollowerLive) => lastRes'.err # "EOF"]_vars

\* C4: with fromStart = false no Read returns a byte that was in the file when
\* Follow was called, and of an appended-to file the first byte returned is the
\* first byte appended after the call.
C4_OnlyAppendedBytes ==
    /\ \A i \in 1..Len(delivered) : delivered[i] \notin 1..startByte
    /\ (~FileDisturbed /\ delivered # <<>>) => delivered[1] = startByte + 1

C4_Witness ==
    /\ startByte = 1
    /\ delivered = <<2>>

\* C5: a Read that is blocked waiting for a wake when Close is called
\* eventually returns (with io.EOF), whatever the event loop is doing.
C5_BlockedReadReturns ==
    (closed /\ readPc = "wait") ~> (readPc # "wait" \/ Crashed)

\* The errors the event loop hands over on f.errc.
TerminalErrs == {"ErrFileTruncated", "ErrFileRemoved", "ErrWatch", "ErrStat"}

\* C6: after Close a Read returns bytes without an error or io.EOF, and no
\* other error (an error the event loop was handing over when Close was called
\* apart).
C6_DrainAfterClose ==
    [][(ReadReturns /\ closed) => lastRes'.err \in {"nil", "EOF"} \cup TerminalErrs]_vars

C8_RotationNoGap ==
    ("rename" \in seen /\ seen \subseteq {"rename", "create"})
        => IsPrefix(delivered, StreamFromStart)

C10_NoBusySpin ==
    /\ [][(readPc \in {"unlocked", "wait"} /\ readPc' = "idle")
            => \/ /\ readPc = "wait" /\ loopPc = "notify" /\ loopPc' = "select"
                  /\ lastRes' = [n |-> 0, err |-> "nil"]
               \/ /\ readPc = "wait" /\ notifycClosed
                  /\ lastRes' = [n |-> 0, err |-> "EOF"]]_vars
    /\ [][(ReadReturns /\ lastRes' = [n |-> 0, err |-> "nil"])
            => (readPc = "wait" /\ loopPc = "notify" /\ loopPc' = "select")]_vars
    /\ [][(loopPc # "notify" /\ loopPc' = "notify")
            => \/ loopPc = "handle" /\ loopEv \in {"Write", "Rename"}
               \/ /\ loopPc = "select" /\ errors # <<>> /\ Head(errors) = "nil"
                  /\ errors' = Tail(errors)]_vars

C10_Witness ==
    /\ lastRes = [n |-> 0, err |-> "nil"]
    /\ readPc = "idle"

C12_FailedFollowLeavesNothing ==
    FollowFailed => (loopPc = "none" /\ events = <<>> /\ ~file.open)

\* C13: a Read with a buffer of length L that finds k > 0 bytes readable (of a
\* file that has only been appended to, before Close) returns min(k, L) bytes
\* and no error, does not panic, and leaves the other k - min(k, L) bytes
\* readable.
C13_ReadReturnsMin ==
    [][(readPc = "body" /\ readable > 0 /\ ~FileDisturbed /\ ~closed
            /\ readPc' # "body")
        => /\ readPc' = "idle"
           /\ lastRes' = [n |-> Min(readable, readLen), err |-> "nil"]
           /\ Len(delivered') = Len(delivered) + Min(readable, readLen)
           /\ offset' = offset + Min(readable, readLen)]_vars

\* C14: once the file has been truncated in place (and nothing else has
\* happened to it but writes, before Close) no Read panics and no Read returns
\* an error.
C14_TruncationSurvived ==
    [][(seen = {"truncate"} /\ ~closed)
        => /\ readPc' # "panic"
           /\ ReadReturns => lastRes'.err = "nil"]_vars

\* The file has been removed, and nothing else has happened to the path but
\* writes and the creation of a new file; the follower follows from the start
\* and has not been closed.
Overwritten ==
    /\ "remove" \in seen
    /\ seen \subseteq {"remove", "create"}
    /\ startByte = 0
    /\ ~closed

\* C15: when the file is removed and a new file is created at the path and
\* written to, the reader gets the bytes written before the removal and then
\* the bytes written to the new file, in order, and no Read returns an error.
C15_OverwriteFollowed ==
    /\ [](Overwritten => IsPrefix(delivered, StreamFromStart))
    /\ [][(Overwritten /\ ReadReturns) => lastRes'.err = "nil"]_vars

\* C16: the reader is never waiting for a wake on f.notifyc while the event
\* loop is waiting for a Read to receive its terminal error on f.errc (neither
\* can go on from there: only followFile sends on f.notifyc, only Read receives
\* from f.errc).
C16_NoWaitAgainstSendErr ==
    ~(readPc = "wait" /\ loopPc = "sendErr")

\* C17: once Close has been called the event loop eventually returns, with
\* f.notifyc and f.errc closed, whatever it was doing when Close was called.
C17_LoopExitsAfterClose ==
    closed ~> ((loopPc = "done" /\ notifycClosed /\ errcClosed) \/ Crashed)

\* C18: no goroutine holds f.mu while it is blocked on a channel: the reader
\* has given it back when it waits on f.notifyc, the event loop does not hold
\* it at its select, its wake or its send of an error, and so an event that the
\* loop has to handle while the reader waits finds f.mu free.
C18_NoLockAcrossChannelOp ==
    /\ readPc \in {"unlocked", "wait"} => mu # "reader"
    /\ loopPc \in {"select", "notify", "sendErr", "exit", "done"} => mu # "loop"
    /\ (readPc = "wait" /\ loopPc = "handle") => mu = "free"

C18_Witness ==
    /\ readPc = "wait"
    /\ loopPc = "handle"
    /\ loopEv = "Write"

\* C19: a wake that is dropped leaves no reader behind: with the file only
\* appended to and the follower open, the reader is never blocked on f.notifyc
\* with bytes readable (f.maxSize above f.offset) while the event loop is back
\* at its select with no event and no error left to wake it for.
C19_DroppedWakeLosesNothing ==
    ~(/\ ~Disturbed
      /\ readPc = "wait"
      /\ loopPc = "select"
      /\ events = <<>>
      /\ errors = <<>>
      /\ Readable > 0)

\* C20: the event loop is started once, by Follow; it ends once and does
\* nothing after that; f.notifyc and f.errc are closed once, together, when it
\* ends, and never before; and the loop is never about to send on one of them
\* when it is closed.
C20_LoopLifecycle ==
    /\ [][(loopPc = "none" /\ loopPc' # "none")
            => (followPc = "opened" /\ followPc' = "live"
                /\ loopPc' = "select")]_vars
    /\ [][loopPc # "none" => loopPc' # "none"]_vars
    /\ [][loopPc = "done" => loopPc' = "done"]_vars
    /\ [][(errcClosed' # errcClosed \/ notifycClosed' # notifycClosed)
            => /\ loopPc = "exit" /\ loopPc' = "done"
               /\ ~errcClosed /\ ~notifycClosed
               /\ errcClosed' /\ notifycClosed']_vars
    /\ [](loopPc = "done" <=> (errcClosed /\ notifycClosed))
    /\ [](loopPc \in {"notify", "sendErr"} => (~errcClosed /\ ~notifycClosed))

C20_Witness ==
    /\ loopPc = "done"
    /\ errcClosed
    /\ notifycClosed
    /\ nTermErr = 1

\* C22: a Rename event never gives the caller an error: whether or not a new
\* file is at the path when the event is handled, the handler returns no error
\* and the event loop goes on to its wake.
C22_RenameGivesNoError ==
    [][(loopPc = "handle" /\ loopEv = "Rename" /\ loopPc' # "handle")
        => (loopPc' = "notify" /\ loopErr' = loopErr)]_vars

\* C23: a Chmod event is ignored: handling it leaves the file handle, the
\* offset, the known size and the channels as they were, gives no error, and
\* the event loop goes on.
C23_ChmodIgnored ==
    [][(loopPc = "handle" /\ loopEv = "Chmod" /\ loopPc' # "handle")
        => /\ loopPc' = "notify"
           /\ loopErr' = loopErr
           /\ UNCHANGED <<file, offset, maxSize, chanVars>>]_vars

\* C24: at its check of f.errc a Read that finds the event loop handing over a
\* terminal error returns (0, that error), bytes readable or not; a Read that
\* finds the channel closed returns io.EOF when nothing is readable, and when
\* something is (and fits the buffer) it returns bytes and no error.
C24_TerminalCheckFirst ==
    /\ [][(readPc = "check" /\ loopPc = "sendErr" /\ readPc' # "check")
            => /\ readPc' = "idle"
               /\ lastRes' = [n |-> 0, err |-> loopErr]
               /\ delivered' = delivered]_vars
    /\ [][(readPc = "check" /\ loopPc # "sendErr" /\ errcClosed
            /\ readable = 0 /\ readPc' # "check")
            => /\ readPc' = "idle"
               /\ lastRes' = [n |-> 0, err |-> "EOF"]]_vars
    /\ [][(readPc = "check" /\ errcClosed /\ readable # 0
            /\ readPc' # "check")
            => readPc' = "body"]_vars
    /\ [][(readPc = "body" /\ errcClosed /\ readable # 0 /\ SliceInRange
            /\ readPc' # "body")
            => /\ readPc' = "idle"
               /\ lastRes'.n > 0
               /\ lastRes'.err = "nil"]_vars

\* C27: in every state of a follower that Follow has returned, f.offset is
\* between 0 and f.maxSize, and the readable count that Read computed is not
\* negative.
C27_OffsetWithinMaxSize ==
    followPc = "live"
        => /\ 0 =< offset
           /\ offset =< maxSize
           /\ readPc \in {"check", "body"} => readable >= 0

\* C21: a call of Close completes: whenever Close waits for f.mu, whatever the
\* reader and the loop are doing or have done, it gets f.mu in the end and
\* returns (unless the program has panicked).
C21_CloseReturns == (closePc = "lock") ~> (closePc = "idle" \/ Crashed)

\* C25: the reader touches the fields of the follower, the closed flag
\* included, only while it holds f.mu: at every point of Read that reads or
\* writes a field, f.mu is held by the reader.
C25_FieldsUnderMutex ==
    readPc \in {"check", "body", "isClosed"} => mu = "reader"

\* C26: every return path of Read has unlocked f.mu: once a Read has
\* returned, and before the next one locks, the reader does not hold f.mu.
C26_ReadReturnsUnlocked == readPc = "idle" => mu # "reader"

=============================================================================
